---- MODULE Spec2Model ----
(***************************************************************************)
(* Model of the scheduled worker of src/worker.ts: one invocation of the   *)
(* default export, its four HTTP-backed helpers and the platform client's  *)
(* answers.  Strings are sequences of tokens, so that a template literal   *)
(* is a concatenation and startsWith / "contains" are computed.            *)
(***************************************************************************)
EXTENDS Integers, Sequences, FiniteSets, TLC

VARIABLES cleanReports, reportType, pc, reportName, requests, outcomes,
          serverReports, reportIds, reportNames, delIdx, console, raised,
          returned, escaped

vars == <<cleanReports, reportType, pc, reportName, requests, outcomes,
          serverReports, reportIds, reportNames, delIdx, console, raised,
          returned, escaped>>

----------------------------------------------------------------------------
\* Bounds of the model

\* longest list of reports the server answers with (num_of_rows=10 in the code)
MaxReports == 2

\* report identifiers the server may have assigned
Ids == {"a", "b", "c"}

\* calendar dates on which the worker may run
Dates == {"2025-01-01", "2025-02-22"}

\* values of the reportType constant: the two known ones and an unknown one
ReportTypes == {"violations", "vulnerabilities", "licenses"}

\* HTTP statuses a response may carry, on both sides of the 400 limit
Statuses == {200, 399, 400, 500}

----------------------------------------------------------------------------
\* Strings as token sequences

StartsWithAnywhere(s, p) ==
  \E i \in 1..Len(s) : i + Len(p) - 1 <= Len(s) /\ SubSeq(s, i, i + Len(p) - 1) = p

\* String.prototype.startsWith
StartsWith(s, p) ==
  Len(s) >= Len(p) /\ SubSeq(s, 1, Len(p)) = p

\* String.prototype.includes, used by the properties only
Contains(s, p) ==
  \E i \in 1..(Len(s) + 1) : i + Len(p) - 1 <= Len(s) /\ SubSeq(s, i, i + Len(p) - 1) = p

NamePrefix == <<"worker_xray_report_">>

generateReportName(date) == NamePrefix \o <<date>>

createReportPayload(name) ==
  [name |-> name,
   resources |-> [projects |-> [names |-> <<>>,
                                include_key_patterns |-> <<"**">>,
                                number_of_latest_versions |-> 5]],
   filters |-> [vulnerable_component |-> "", impacted_artifact |-> "",
                cve |-> "", issue_id |-> "", severities |-> <<>>]]

----------------------------------------------------------------------------
\* The platform client: requests and their outcomes

\* names of reports on the server: one of this worker, a foreign one, and a
\* foreign one that holds the prefix in the middle
Names == {<<"worker_xray_report_", "2025-01-01">>,
          <<"other_report">>,
          <<"copy_of_", "worker_xray_report_", "2025-01-01">>}

ReportDetail == [id : Ids, status : {"completed"}, name : Names, progress : {100}]

ReportLists ==
  UNION {{s \in [1..n -> ReportDetail] :
            \A i, j \in 1..n : i # j => s[i].id # s[j].id} : n \in 0..MaxReports}

\* a response with a status (and a body that is as declared, or missing),
\* or the client call throwing, with or without error.response.status
RespOutcomes ==
  {[threw |-> FALSE, status |-> s, detail |-> <<>>, bodyOk |-> b] :
     s \in Statuses, b \in BOOLEAN}

ThrowOutcomes ==
  {[threw |-> TRUE, status |-> 0, detail |-> <<"Network Error">>, bodyOk |-> FALSE],
   [threw |-> TRUE, status |-> 500,
    detail |-> <<"Request failed with status code ", "500">>, bodyOk |-> FALSE]}

Outcomes == RespOutcomes \cup ThrowOutcomes

\* deleteReports never reads the body of the response
DeleteOutcomes == {o \in Outcomes : o.threw \/ o.bodyOk}

VulnerabilitiesRequest(payload) ==
  [method |-> "POST", path |-> <<"/xray/api/v1/reports/vulnerabilities">>,
   body |-> <<payload>>, headersInBody |-> FALSE, headersInConfig |-> TRUE]

ViolationsRequest(payload) ==
  [method |-> "POST", path |-> <<"/xray/api/v1/reports/violations">>,
   body |-> <<payload>>, headersInBody |-> TRUE, headersInConfig |-> FALSE]

ListRequest ==
  [method |-> "POST",
   path |-> <<"/xray/api/v1/reports?direction=desc&page_num=1&num_of_rows=10&order_by=start_time">>,
   body |-> <<>>, headersInBody |-> TRUE, headersInConfig |-> FALSE]

DeleteRequest(reportId) ==
  [method |-> "DELETE", path |-> <<"/xray/api/v1/reports/", reportId>>,
   body |-> <<>>, headersInBody |-> FALSE, headersInConfig |-> TRUE]

----------------------------------------------------------------------------
\* Helpers shared by the three try/catch blocks of the requesting functions

Line(level, text) == [level |-> level, text |-> text, data |-> <<>>]

IsSuccessUpTo400(status) == status = 200 \/ status <= 400

\* res.status === 200 || res.status < 400
IsSuccess(status) == status = 200 \/ status < 400

\* error.response?.status || "<none>"
StatusOrNone(status) == IF status = 0 THEN "<none>" ELSE ToString(status)

\* what the try block throws, if anything: the client's error, the error of
\* the else branch, or the TypeError of reading a field of a missing body
NoError == [thrown |-> FALSE, message |-> <<>>, status |-> 0]

ThrownInTry(label, o, field) ==
  IF o.threw THEN [thrown |-> TRUE, message |-> o.detail, status |-> o.status]
  ELSE IF IsSuccess(o.status)
       THEN IF o.bodyOk THEN NoError
            ELSE [thrown |-> TRUE, status |-> 0,
                  message |-> <<"Cannot read properties of undefined (reading '", field, "')">>]
       ELSE [thrown |-> TRUE, status |-> 0,
             message |-> <<label, ToString(o.status)>>]

WarnNon200(o) ==
  IF ~o.threw /\ ~IsSuccess(o.status)
  THEN <<Line("warn", <<"Request succeeded but returned a non-200 status: ",
                        ToString(o.status)>>)>>
  ELSE <<>>

CatchLine(err) ==
  Line("error", <<"Request failed with status ", StatusOrNone(err.status), ": ">>
                  \o err.message)

RethrowUnwrapped(label, err) == err.message

\* throw new Error(`<label>${error.message}`)
Rethrow(label, err) == <<label>> \o err.message

----------------------------------------------------------------------------
\* Report Requester

Result(ok, error, lines) ==
  [ok |-> ok, error |-> error, console |-> lines, reportIds |-> <<>>, reportNames |-> <<>>]

generateVulnerabilitiesReport(o) ==
  LET label == "Failed to generate the vulnerabilities report: "
      err == ThrownInTry(label, o, "report_id")
  IN IF err.thrown
     THEN Result(FALSE, Rethrow(label, err), WarnNon200(o) \o <<CatchLine(err)>>)
     ELSE Result(TRUE, <<>>, <<>>)

generateViolationsReport(o) ==
  LET label == "Failed to generate the violations report: "
      err == ThrownInTry(label, o, "report_id")
  IN IF err.thrown
     THEN Result(FALSE, Rethrow(label, err), WarnNon200(o) \o <<CatchLine(err)>>)
     ELSE Result(TRUE, <<>>, <<>>)

----------------------------------------------------------------------------
\* Report Lister

filterNothing(reports) == reports

\* reportList.data.reports.filter(report => report.name.startsWith(prefix))
filterReports(reports) ==
  SelectSeq(reports, LAMBDA report : StartsWith(report.name, NamePrefix))

mapIds(reports) == [i \in 1..Len(reports) |-> reports[i].id]

mapNames(reports) == [i \in 1..Len(reports) |-> reports[i].name]

listReports(o, reports) ==
  LET label == "Failed to retrieve the reports: "
      err == ThrownInTry(label, o, "reports")
      filteredReports == filterReports(reports)
      seen == <<[level |-> "log", text |-> <<"All Reports:">>, data |-> reports],
                [level |-> "log", text |-> <<"Filtered Reports:">>, data |-> filteredReports]>>
  IN IF err.thrown
     THEN Result(FALSE, Rethrow(label, err), WarnNon200(o) \o <<CatchLine(err)>>)
     ELSE IF Len(filteredReports) = 0
          THEN [ok |-> TRUE, error |-> <<>>, reportIds |-> <<>>, reportNames |-> <<>>,
                console |-> seen \o
                  <<Line("warn", <<"No reports found with the specified name pattern.">>)>>]
          ELSE [ok |-> TRUE, error |-> <<>>, console |-> seen,
                reportIds |-> mapIds(filteredReports),
                reportNames |-> mapNames(filteredReports)]

----------------------------------------------------------------------------
\* Report Deleter: one turn of the for loop, and what its try/catch decides

deleteStepStopOnStatus(reportId, o) ==
  IF o.threw
  THEN [continue |-> FALSE,
        console |-> <<Line("error", <<"Failed to delete reports: ">> \o o.detail)>>]
  ELSE IF IsSuccess(o.status)
       THEN [continue |-> TRUE,
             console |-> <<Line("log", <<"Successfully deleted report with ID: ", reportId>>)>>]
       ELSE [continue |-> FALSE,
             console |-> <<Line("warn", <<"Failed to delete report with ID: ", reportId,
                                          ", status: ", ToString(o.status)>>)>>]

deleteStep(reportId, o) ==
  IF o.threw
  THEN [continue |-> FALSE,
        console |-> <<Line("error", <<"Failed to delete reports: ">> \o o.detail)>>]
  ELSE IF IsSuccess(o.status)
       THEN [continue |-> TRUE,
             console |-> <<Line("log", <<"Successfully deleted report with ID: ", reportId>>)>>]
       ELSE [continue |-> TRUE,
             console |-> <<Line("warn", <<"Failed to delete report with ID: ", reportId,
                                          ", status: ", ToString(o.status)>>)>>]

----------------------------------------------------------------------------
\* Orchestrator: the default export

Return(message) == [returned |-> <<[message |-> message]>>, escaped |-> <<>>]

CleanCatch(error) == Return(error)

GenerateCatchEscapes(error) == [returned |-> <<>>, escaped |-> <<error>>]

GenerateCatch(error) == Return(error)

HasReportsOrNone(ids) == Len(ids) >= 0

\* reportIds.length > 0
HasReports(ids) == Len(ids) > 0

DeletedMessage(ids) == <<"Successfully deleted ", ToString(Len(ids)), " reports.">>

NoReportsMessage == <<"No reports found to delete.">>

ViolationsMessage(name) ==
  <<"Violations report ">> \o name \o <<" was successfully generated.">>

SuccessMessage(name) ==
  <<"Vulnerabilities report ">> \o name \o <<" was successfully generated.">>

CreatedLine(name, ids) ==
  IF HasReports(ids)
  THEN Line("log", <<"Report created with name: ">> \o name \o <<" and ID: ", ids[1]>>)
  ELSE Line("log", <<"Report created with name: ">> \o name
                       \o <<" but no report ID was found.">>)

Finish(res) ==
  /\ returned' = returned \o res.returned
  /\ escaped' = escaped \o res.escaped
  /\ pc' = "done"

Init ==
  /\ cleanReports \in BOOLEAN
  /\ reportType \in ReportTypes
  /\ pc = "start"
  /\ reportName = <<>>
  /\ requests = <<>>
  /\ outcomes = <<>>
  /\ serverReports = <<>>
  /\ reportIds = <<>>
  /\ reportNames = <<>>
  /\ delIdx = 0
  /\ console = <<>>
  /\ raised = <<>>
  /\ returned = <<>>
  /\ escaped = <<>>

\* cleanReports: the list call is issued
StartClean ==
  /\ pc = "start"
  /\ cleanReports
  /\ requests' = Append(requests, ListRequest)
  /\ pc' = "list"
  /\ UNCHANGED <<cleanReports, reportType, reportName, outcomes, serverReports,
                 reportIds, reportNames, delIdx, console, raised, returned, escaped>>

\* !cleanReports: name, payload and the dispatch on reportType
StartGenerate ==
  /\ pc = "start"
  /\ ~cleanReports
  /\ \E date \in Dates :
       LET name == generateReportName(date)
           payload == createReportPayload(name)
       IN /\ reportName' = name
          /\ IF reportType = "vulnerabilities"
             THEN /\ requests' = Append(requests, VulnerabilitiesRequest(payload))
                  /\ pc' = "create"
                  /\ UNCHANGED <<returned, escaped>>
             ELSE IF reportType = "violations"
             THEN /\ requests' = Append(requests, ViolationsRequest(payload))
                  /\ pc' = "create"
                  /\ UNCHANGED <<returned, escaped>>
             ELSE /\ requests' = requests
                  /\ Finish(GenerateCatch(<<"Unknown report type: ", reportType>>))
  /\ UNCHANGED <<cleanReports, reportType, outcomes, serverReports, reportIds,
                 reportNames, delIdx, console, raised>>

\* the creation call settles
CreateReturns ==
  /\ pc = "create"
  /\ \E o \in Outcomes :
       LET fn == IF reportType = "vulnerabilities"
                 THEN "generateVulnerabilitiesReport" ELSE "generateViolationsReport"
           r == IF reportType = "vulnerabilities"
                THEN generateVulnerabilitiesReport(o) ELSE generateViolationsReport(o)
       IN /\ outcomes' = Append(outcomes, o)
          /\ console' = console \o r.console
          /\ IF r.ok
             THEN /\ requests' = Append(requests, ListRequest)
                  /\ pc' = "list"
                  /\ UNCHANGED <<raised, returned, escaped>>
             ELSE /\ raised' = Append(raised, [fn |-> fn, message |-> r.error, outcome |-> o])
                  /\ requests' = requests
                  /\ Finish(GenerateCatch(r.error))
  /\ UNCHANGED <<cleanReports, reportType, reportName, serverReports, reportIds,
                 reportNames, delIdx>>

\* the list call settles, in either mode
ListReturns ==
  /\ pc = "list"
  /\ \E o \in Outcomes, reports \in ReportLists :
       LET r == listReports(o, reports)
       IN /\ outcomes' = Append(outcomes, o)
          /\ serverReports' = IF r.ok THEN reports ELSE <<>>
          /\ reportIds' = r.reportIds
          /\ reportNames' = r.reportNames
          /\ raised' = IF r.ok THEN raised
                       ELSE Append(raised, [fn |-> "listReports", message |-> r.error,
                                            outcome |-> o])
          /\ IF ~r.ok
             THEN /\ console' = console \o r.console
                  /\ UNCHANGED <<requests, delIdx>>
                  /\ Finish(IF cleanReports THEN CleanCatch(r.error)
                            ELSE GenerateCatch(r.error))
             ELSE IF ~cleanReports
             THEN /\ console' = console \o r.console
                                  \o <<CreatedLine(reportName, r.reportIds)>>
                  /\ UNCHANGED <<requests, delIdx>>
                  /\ Finish(Return(SuccessMessage(reportName)))
             ELSE IF ~HasReports(r.reportIds)
             THEN /\ console' = console \o r.console
                  /\ UNCHANGED <<requests, delIdx>>
                  /\ Finish(Return(NoReportsMessage))
             ELSE IF Len(r.reportIds) = 0
             THEN /\ console' = console \o r.console
                  /\ UNCHANGED <<requests, delIdx>>
                  /\ Finish(Return(DeletedMessage(r.reportIds)))
             ELSE /\ console' = console \o r.console
                  /\ requests' = Append(requests, DeleteRequest(r.reportIds[1]))
                  /\ delIdx' = 1
                  /\ pc' = "delete"
                  /\ UNCHANGED <<returned, escaped>>
  /\ UNCHANGED <<cleanReports, reportType, reportName>>

\* the delete call of the current identifier settles
DeleteReturns ==
  /\ pc = "delete"
  /\ \E o \in DeleteOutcomes :
       LET step == deleteStep(reportIds[delIdx], o)
       IN /\ outcomes' = Append(outcomes, o)
          /\ console' = console \o step.console
          /\ IF step.continue /\ delIdx < Len(reportIds)
             THEN /\ requests' = Append(requests, DeleteRequest(reportIds[delIdx + 1]))
                  /\ delIdx' = delIdx + 1
                  /\ pc' = "delete"
                  /\ UNCHANGED <<returned, escaped>>
             ELSE /\ UNCHANGED <<requests, delIdx>>
                  /\ Finish(Return(DeletedMessage(reportIds)))
  /\ UNCHANGED <<cleanReports, reportType, reportName, serverReports, reportIds,
                 reportNames, raised>>

Next ==
  \/ StartClean
  \/ StartGenerate
  \/ CreateReturns
  \/ ListReturns
  \/ DeleteReturns

Spec == Init /\ [][Next]_vars

\* every call the client was given settles, and the runtime then resumes the
\* awaiting function
FairSpec == Spec /\ WF_vars(Next)

TypeOK ==
  /\ pc \in {"start", "create", "list", "delete", "done"}
  /\ delIdx \in 0..MaxReports
  /\ Len(returned) <= 1

----------------------------------------------------------------------------
\* Vocabulary of the properties, stated on the requests sent and the
\* outcomes the client gave, not on the helpers above

\* a call that gave a response below 400 carrying the declared body
Succeeded(o) == ~o.threw /\ o.status < 400 /\ o.bodyOk

\* a call that gave a response of status 400 or more
FailedStatus(o) == ~o.threw /\ o.status >= 400

ListPath ==
  <<"/xray/api/v1/reports?direction=desc&page_num=1&num_of_rows=10&order_by=start_time">>

CreatePaths ==
  {<<"/xray/api/v1/reports/vulnerabilities">>, <<"/xray/api/v1/reports/violations">>}

\* position of the list call among the calls of the invocation
ListIndex == IF cleanReports THEN 1 ELSE 2

ListSucceeded == Len(outcomes) >= ListIndex /\ Succeeded(outcomes[ListIndex])

DeleteRequests == SelectSeq(requests, LAMBDA q : q.method = "DELETE")

DeleteOutcomesSeen ==
  IF cleanReports /\ Len(outcomes) > 1 THEN SubSeq(outcomes, 2, Len(outcomes)) ELSE <<>>

IsOurs(report) == Len(report.name) >= 1 /\ report.name[1] = "worker_xray_report_"

LabelOf(fn) ==
  IF fn = "generateVulnerabilitiesReport" THEN "Failed to generate the vulnerabilities report: "
  ELSE IF fn = "generateViolationsReport" THEN "Failed to generate the violations report: "
  ELSE "Failed to retrieve the reports: "

KnownType == reportType \in {"violations", "vulnerabilities"}

----------------------------------------------------------------------------
\* C1: whatever the configuration and whatever each outbound call does, the
\* invocation ends, and it ends by returning exactly one response; nothing is
\* ever thrown past the entry point.
C1_ExactlyOneResponse ==
  /\ [](/\ escaped = <<>>
        /\ Len(returned) <= 1
        /\ (pc = "done" <=> Len(returned) = 1))
  /\ <>(pc = "done")

C1_Witness ==
  /\ pc = "done"
  /\ Len(returned) = 1
  /\ \E i \in 1..Len(outcomes) : outcomes[i].threw

\* C2: as long as no delete call throws, a DELETE is attempted for every
\* listed identifier, once each and in the order of the list, whichever of
\* them answer with a non-success status, and deleteReports does not raise.
C2_BestEffortDelete ==
  (\A i \in 1..Len(DeleteOutcomesSeen) : ~DeleteOutcomesSeen[i].threw) =>
    /\ escaped = <<>>
    /\ Len(DeleteRequests) <= Len(reportIds)
    /\ \A i \in 1..Len(DeleteRequests) :
         DeleteRequests[i].path = <<"/xray/api/v1/reports/", reportIds[i]>>
    /\ (pc = "delete" => Len(DeleteRequests) = Len(DeleteOutcomesSeen) + 1)
    /\ (pc = "done" /\ cleanReports /\ Len(reportIds) > 0 =>
          /\ Len(DeleteRequests) = Len(reportIds)
          /\ Len(returned) = 1)

C2_Witness ==
  /\ pc = "done"
  /\ cleanReports
  /\ Len(reportIds) >= 2
  /\ Len(DeleteRequests) = Len(reportIds)
  /\ FailedStatus(DeleteOutcomesSeen[1])
  /\ \A i \in 1..Len(DeleteOutcomesSeen) : ~DeleteOutcomesSeen[i].threw

\* C3: when the client's delete call throws for an identifier, no later
\* identifier is attempted and the response of the clean mode reports that
\* failure, not a successful deletion.
C3_ThrowReportedByCaller ==
  \A i \in 1..Len(DeleteOutcomesSeen) :
    DeleteOutcomesSeen[i].threw =>
      /\ Len(DeleteRequests) = i
      /\ (pc = "done" =>
            /\ Len(returned) = 1
            /\ returned[1].message[1] # "Successfully deleted "
            /\ Contains(returned[1].message, DeleteOutcomesSeen[i].detail))

\* C4: in the clean mode, a successful list of no identifier answers
\* 'No reports found to delete.' and sends no DELETE; a successful list of
\* N > 0 identifiers answers 'Successfully deleted N reports.' whatever the
\* deletes did; a failed list answers its failure text and sends no DELETE.
C4_CleanModeMessage ==
  cleanReports =>
    /\ (~ListSucceeded => DeleteRequests = <<>>)
    /\ (pc = "done" =>
          /\ Len(returned) = 1
          /\ (ListSucceeded /\ Len(reportIds) = 0 =>
                /\ returned[1].message = <<"No reports found to delete.">>
                /\ DeleteRequests = <<>>)
          /\ (ListSucceeded /\ Len(reportIds) > 0 =>
                returned[1].message =
                  <<"Successfully deleted ", ToString(Len(reportIds)), " reports.">>)
          /\ (~ListSucceeded =>
                /\ Len(raised) = 1
                /\ raised[1].fn = "listReports"
                /\ returned[1].message = raised[1].message
                /\ returned[1].message[1] = "Failed to retrieve the reports: "))

C4_Witness ==
  /\ pc = "done"
  /\ cleanReports
  /\ Len(reportIds) = 2
  /\ \E i \in 1..Len(DeleteOutcomesSeen) : FailedStatus(DeleteOutcomesSeen[i])
  /\ returned[1].message = <<"Successfully deleted ", "2", " reports.">>

\* C5: in the generate mode, a failed creation step (status of 400 or more,
\* a throwing call, an unknown reportType) makes the response that failure's
\* text, and the list call is never made.
C5_CreationFailureSkipsListing ==
  pc = "done" /\ ~cleanReports =>
    /\ Len(returned) = 1
    /\ (~KnownType =>
          /\ returned[1].message = <<"Unknown report type: ", reportType>>
          /\ requests = <<>>)
    /\ (KnownType /\ ~Succeeded(outcomes[1]) =>
          LET o == outcomes[1]
              label == IF reportType = "violations"
                       THEN "Failed to generate the violations report: "
                       ELSE "Failed to generate the vulnerabilities report: "
          IN /\ \A i \in 1..Len(requests) : requests[i].path # ListPath
             /\ Len(requests) = 1
             /\ returned[1].message[1] = label
             /\ (FailedStatus(o) =>
                   Contains(returned[1].message, <<label, ToString(o.status)>>))
             /\ (o.threw => returned[1].message = <<label>> \o o.detail))

C5_Witness ==
  /\ pc = "done"
  /\ ~cleanReports
  /\ reportType = "violations"
  /\ Len(outcomes) = 1
  /\ FailedStatus(outcomes[1])
  /\ outcomes[1].status = 500
  /\ Contains(returned[1].message, <<"Failed to generate the violations report: ", "500">>)

\* C6: with cleanReports enabled the worker deletes the existing reports and
\* then generates a new one: a creation request follows the delete requests.
C6_CleanThenGenerate ==
  pc = "done" /\ cleanReports =>
    \E i \in 1..Len(requests) :
      /\ requests[i].path \in CreatePaths
      /\ \A j \in 1..Len(requests) : requests[j].method = "DELETE" => j < i

\* C7 as stated: the error raised by the requester or the lister contains
\* the status code when the call failed with one, and '<none>' when it
\* failed without one.
C7_StatusOrNoneInMessage ==
  \A i \in 1..Len(raised) :
    LET e == raised[i]
        o == e.outcome
    IN /\ (o.threw /\ o.status = 0 => Contains(e.message, <<"<none>">>))
       /\ (FailedStatus(o) \/ (o.threw /\ o.status # 0) =>
             Contains(e.message, <<ToString(o.status)>>))

\* C7 as amended: the raised error's message is the function's 'Failed to
\* ...: ' text followed by the underlying failure detail; it contains the
\* status code when the response carried a status of 400 or more; the status
\* of a thrown error, or '<none>', is written to the console.error line only
\* and is not added to the raised message.
C7_MessageIsLabelAndDetail ==
  \A i \in 1..Len(raised) :
    LET e == raised[i]
        o == e.outcome
        label == LabelOf(e.fn)
    IN /\ (o.threw =>
             /\ e.message = <<label>> \o o.detail
             /\ \E k \in 1..Len(console) :
                  /\ console[k].level = "error"
                  /\ console[k].text =
                       <<"Request failed with status ",
                         IF o.status = 0 THEN "<none>" ELSE ToString(o.status), ": ">>
                       \o o.detail)
       /\ (FailedStatus(o) =>
             /\ e.message = <<label, label, ToString(o.status)>>
             /\ Contains(e.message, <<ToString(o.status)>>)
             /\ \E k \in 1..Len(console) :
                  /\ console[k].level = "error"
                  /\ console[k].text =
                       <<"Request failed with status ", "<none>", ": ",
                         label, ToString(o.status)>>)
       /\ (o.threw \/ FailedStatus(o) => ~Contains(e.message, <<"<none>">>))

C7_Witness ==
  /\ Len(raised) = 1
  /\ raised[1].fn = "listReports"
  /\ raised[1].outcome.threw
  /\ raised[1].outcome.status = 0
  /\ pc = "done"

\* C8: in the generate mode with a known reportType, the response is
\* 'Vulnerabilities report <name> was successfully generated.', with <name>
\* the date-stamped name sent in the creation payload, exactly when both the
\* creation call and the list call succeed; a list failure after a successful
\* creation answers the list failure text, which does not mention the creation.
C8_GeneratedIffBothSucceed ==
  pc = "done" /\ ~cleanReports /\ KnownType =>
    LET msg == returned[1].message
        sent == requests[1].body[1].name
        listed == Len(outcomes) = 2
    IN /\ Len(returned) = 1
       /\ Len(sent) = 2 /\ sent[1] = "worker_xray_report_" /\ sent[2] \in Dates
       /\ (msg = <<"Vulnerabilities report ">> \o sent \o <<" was successfully generated.">>
             <=> (listed /\ Succeeded(outcomes[1]) /\ Succeeded(outcomes[2])))
       /\ (listed => Succeeded(outcomes[1]))
       /\ (listed /\ ~Succeeded(outcomes[2]) =>
             /\ msg[1] = "Failed to retrieve the reports: "
             /\ ~Contains(msg, <<" was successfully generated.">>)
             /\ ~Contains(msg, sent))

C8_Witness ==
  /\ pc = "done"
  /\ ~cleanReports
  /\ reportType = "violations"
  /\ Len(outcomes) = 2
  /\ Succeeded(outcomes[2])
  /\ returned[1].message =
       <<"Vulnerabilities report ", "worker_xray_report_", "2025-02-22",
         " was successfully generated.">>

\* C9: on a successful list call, the identifiers and the names returned are
\* those of exactly the reports whose name starts with 'worker_xray_report_',
\* position by position and in the server's order; no matching report gives
\* two empty sequences and no error.
C9_ListerFilters ==
  ListSucceeded =>
    LET match == {j \in 1..Len(serverReports) : IsOurs(serverReports[j])}
    IN /\ Len(reportIds) = Cardinality(match)
       /\ Len(reportNames) = Len(reportIds)
       /\ \E f \in [1..Len(reportIds) -> match] :
            /\ \A i, k \in 1..Len(reportIds) : i < k => f[i] < f[k]
            /\ \A i \in 1..Len(reportIds) :
                 /\ reportIds[i] = serverReports[f[i]].id
                 /\ reportNames[i] = serverReports[f[i]].name
       /\ \A i \in 1..Len(raised) : raised[i].fn # "listReports"

C9_Witness ==
  /\ ListSucceeded
  /\ Len(serverReports) = 2
  /\ ~IsOurs(serverReports[1])
  /\ IsOurs(serverReports[2])
  /\ reportIds = <<serverReports[2].id>>
  /\ reportNames = <<serverReports[2].name>>

\* C10: every DELETE targets an identifier that the successful list call of
\* the same invocation gave for a report named 'worker_xray_report_...';
\* no other report is deleted, no DELETE precedes the list's success, and
\* the generate mode sends no DELETE.
C10_OnlyListedOwnReportsDeleted ==
  \A i \in 1..Len(requests) :
    requests[i].method = "DELETE" =>
      /\ cleanReports
      /\ i > 1
      /\ requests[1].path = ListPath
      /\ Len(outcomes) >= 1 /\ Succeeded(outcomes[1])
      /\ Len(requests[i].path) = 2
      /\ requests[i].path[1] = "/xray/api/v1/reports/"
      /\ \E j \in 1..Len(serverReports) :
           IsOurs(serverReports[j]) /\ requests[i].path[2] = serverReports[j].id
      /\ \A j \in 1..Len(serverReports) :
           ~IsOurs(serverReports[j]) => requests[i].path[2] # serverReports[j].id

C10_Witness ==
  /\ \E i \in 1..Len(requests) : requests[i].method = "DELETE"
  /\ \E j \in 1..Len(serverReports) :
       serverReports[j].name[1] = "copy_of_"

====
